---- MODULE Spec2Model ----
(***************************************************************************)
(* Model of the PDF chat plugin: the ingestion pipeline of MyPlugin        *)
(* (processActiveLeaf, preparePdf, getEmbedding, splitIntoChunks) and the  *)
(* conversation controller of ChatView (send, clear, updateProcessingState).*)
(*                                                                         *)
(* An async method is one action per suspension point: the code between two *)
(* awaits runs without interleaving (single-threaded event loop), and the   *)
(* result of the awaited operation is chosen when the continuation runs.    *)
(*                                                                         *)
(* Text is a sequence of tokens: Page(n) is the marker "[Page n]\n",        *)
(* Para(id) a paragraph, Sep the blank-line boundary "\n\n".                *)
(* The empty string is <<>>.                                                *)
(***************************************************************************)
EXTENDS Integers, Sequences, FiniteSets, TLC

VARIABLES
    apiKey,              \* settings.apiKey is non-empty
    embeddingModel,      \* settings.selectedEmbeddingModel is non-empty
    concurrency,         \* settings.concurrency
    lastProcessedFile,   \* settings.lastProcessedFile: a path or Null
    currentPdfText,      \* MyPlugin.currentPdfText
    currentPdfChunks,    \* MyPlugin.currentPdfChunks
    isProcessing,        \* MyPlugin.isProcessing
    onStateChange,       \* MyPlugin.onStateChange: Null, "view" or "other"
    cache,               \* the cache directory: file name -> content
    runs,                \* the preparePdf invocations: the live ones and the last ended
    pendingIdle,         \* processActiveLeaf calls suspended in saveSettings (line 78)
    lastCall,            \* "rejected", "nokey" or "started" right after such a preparePdf
                         \* call, "skipped" after a processActiveLeaf that made none
    lastBroadcast,       \* status of the most recent onStateChange call
    viewOpen,            \* the ChatView is open (messagesEl attached)
    viewDetached,        \* the ChatView was closed: its elements are detached
    secondView,          \* a second ChatView in another leaf: whether it is open and
                         \* its inputEl.disabled; `latest` is the view whose onOpen
                         \* registered its listener last
    hasChatStarted,      \* ChatView.hasChatStarted
    inputDisabled,       \* ChatView.inputEl.disabled
    attachedScreenshot,  \* ChatView.attachedScreenshot is set
    conversationHistory, \* ChatView.conversationHistory
    turns,               \* the send handlers suspended in an await, with what each was
                         \* sent with (before, contents) and met since (cleared, alone)
    nextTurn,            \* number of the next accepted turn
    lastRequest,         \* requestBody.contents of the request the last click sent, <<>> otherwise
    lastClick            \* what the send handler that ran last did: "rejected", "sent",
                         \* "blocked", "failed"; "none" otherwise

pluginVars == <<apiKey, embeddingModel, concurrency, lastProcessedFile, currentPdfText,
                currentPdfChunks, isProcessing, cache, runs, pendingIdle, lastCall>>
viewVars == <<onStateChange, lastBroadcast, viewOpen, viewDetached, secondView,
              hasChatStarted, inputDisabled>>
chatVars == <<attachedScreenshot, conversationHistory, turns, nextTurn, lastRequest,
              lastClick>>
vars == <<pluginVars, viewVars, chatVars>>

Null == "null"   \* no listener
NoFile == <<>>    \* lastProcessedFile: null

PopNothing(array) == array

\* Array.prototype.pop: the array without its last element.
Pop(array) ==
    IF array = <<>> THEN <<>> ELSE SubSeq(array, 1, Len(array) - 1)

----------------------------------------------------------------------------
(* Bounds of the model *)

MaxConcurrency == 2   \* settings.concurrency ranges over 1..MaxConcurrency
MaxRuns == 2          \* preparePdf invocations that may be suspended at once
MaxPendingIdle == 1   \* processActiveLeaf resets that may be suspended at once
MaxTurns == 2         \* turns accepted by one view
MaxInFlight == 2      \* send handlers that may be suspended at once
MaxTextLen == 4       \* tokens of a text handed to the chunker
MaxPage == 2          \* page numbers of the markers of such a text
MaxComponent == 1     \* vector components range over -MaxComponent..MaxComponent
MaxChunks == 2        \* chunks of a chunk set handed to findMaxSimilarity

(* Program constants *)
MinParagraphLength == 100   \* a paragraph is kept when its trimmed length exceeds it
DecimalPlaces == 4          \* toFixed(4)
ValueDigits == 5            \* an embedding component v stands for v / 10^ValueDigits

----------------------------------------------------------------------------
(* The documents of the vault. A path is a sequence of characters. *)

PathA == <<"a", ".", "b">>
PathB == <<"a", "_", "b">>
PathC == <<"c">>
Docs == {PathA, PathB, PathC}

AlphaNumeric == {"a", "b", "c"}

\* Trimmed length of each paragraph.
ParagraphLength(id) ==
    CASE id = "A1" -> 150
      [] id = "A2" -> 20
      [] id = "A3" -> 101
      [] id = "B1" -> 120
      [] id = "C1" -> 100
      [] OTHER -> 0

\* The pages of a document as pdf.js yields them: page i is the sequence of its paragraphs.
DocPages(path) ==
    CASE path = PathA -> << <<"A1", "A2">>, <<"A3">> >>
      [] path = PathB -> << <<"B1">> >>
      [] OTHER -> << <<"C1">> >>

\* The vector the remote model returns for a text, in units of 1e-5.
RemoteEmbedding(text) ==
    CASE text = "A1" -> <<12344, -14>>
      [] text = "A3" -> <<-12346, 30000>>
      [] text = "B1" -> <<99996, 4>>
      [] OTHER -> <<0, 0>>

----------------------------------------------------------------------------
(* Text *)

Page(n) == [k |-> "page", n |-> n, id |-> ""]
Para(id) == [k |-> "para", n |-> 0, id |-> id]
Sep == [k |-> "sep", n |-> 0, id |-> ""]

RECURSIVE JoinParagraphs(_)
\* pageText: the paragraphs of a page, a blank line between two of them.
JoinParagraphs(ps) ==
    IF ps = <<>> THEN <<>>
    ELSE IF Len(ps) = 1 THEN <<Para(ps[1])>>
    ELSE <<Para(ps[1]), Sep>> \o JoinParagraphs(Tail(ps))

RECURSIVE PagesText(_, _)
\* fullText += `[Page ${i}]\n${pageText.trim()}\n\n` for the pages from i on.
PagesText(pages, i) ==
    IF i > Len(pages) THEN <<>>
    ELSE <<Page(i)>> \o JoinParagraphs(pages[i]) \o <<Sep>> \o PagesText(pages, i + 1)

\* parsePdf on the binary of a document that pdf.js can read.
ParsedText(path) == PagesText(DocPages(path), 1)

RECURSIVE SplitFromInclusive(_, _, _)
\* SplitFrom with `>=` for the `>` of line 124.
SplitFromInclusive(text, i, pageNum) ==
    IF i > Len(text) THEN <<>>
    ELSE IF text[i].k = "page" THEN SplitFromInclusive(text, i + 1, text[i].n)
    ELSE IF text[i].k = "para" /\ pageNum # -1
            /\ ParagraphLength(text[i].id) >= MinParagraphLength
         THEN <<[text |-> text[i].id, page |-> pageNum]>>
                  \o SplitFromInclusive(text, i + 1, pageNum)
         ELSE SplitFromInclusive(text, i + 1, pageNum)

RECURSIVE SplitFromFirstPage(_, _, _)
\* SplitFrom tagging every chunk with the number of the first marker of the text.
SplitFromFirstPage(text, i, pageNum) ==
    IF i > Len(text) THEN <<>>
    ELSE IF text[i].k = "page"
         THEN SplitFromFirstPage(text, i + 1, IF pageNum = -1 THEN text[i].n ELSE pageNum)
    ELSE IF text[i].k = "para" /\ pageNum # -1
            /\ ParagraphLength(text[i].id) > MinParagraphLength
         THEN <<[text |-> text[i].id, page |-> pageNum]>>
                  \o SplitFromFirstPage(text, i + 1, pageNum)
         ELSE SplitFromFirstPage(text, i + 1, pageNum)

RECURSIVE SplitFrom(_, _, _)
\* The chunks of text[i..], where pageNum is the number of the last page marker seen
\* (-1 before the first marker: split(...).slice(1) drops what precedes it).
SplitFrom(text, i, pageNum) ==
    IF i > Len(text) THEN <<>>
    ELSE IF text[i].k = "page" THEN SplitFrom(text, i + 1, text[i].n)
    ELSE IF text[i].k = "para" /\ pageNum # -1
            /\ ParagraphLength(text[i].id) > MinParagraphLength
         THEN <<[text |-> text[i].id, page |-> pageNum]>> \o SplitFrom(text, i + 1, pageNum)
         ELSE SplitFrom(text, i + 1, pageNum)

splitIntoChunks(fullText) == SplitFrom(fullText, 1, -1)

RECURSIVE CachedText(_)
\* chunks.map(chunk => `[Page ${chunk.page}]\n${chunk.text}`).join('\n\n')
CachedText(chunks) ==
    IF chunks = <<>> THEN <<>>
    ELSE IF Len(chunks) = 1 THEN <<Page(chunks[1].page), Para(chunks[1].text)>>
    ELSE <<Page(chunks[1].page), Para(chunks[1].text), Sep>> \o CachedText(Tail(chunks))

----------------------------------------------------------------------------
(* Cache *)

\* file.path.replace(/[^a-zA-Z0-9]/g, '_') + ".json"
cacheFileName(path) ==
    [i \in DOMAIN path |-> IF path[i] \in AlphaNumeric THEN path[i] ELSE "_"] \o <<".json">>

CacheFiles == {cacheFileName(d) : d \in Docs}

\* A cache file: whether it exists and parses, and the chunks it holds. `by` and `wrote`
\* record its history: the document whose run wrote it last, and for each document the
\* chunks, as embedded, that the last run for that document wrote into it.
Absent == [state |-> "absent", chunks |-> <<>>, by |-> NoFile,
           wrote |-> [d \in Docs |-> <<>>]]
Corrupt(content) == [content EXCEPT !.state = "corrupt", !.chunks = <<>>]
Stored(content, run) ==
    [state |-> "valid", chunks |-> run.toWrite, by |-> run.file,
     wrote |-> [content.wrote EXCEPT ![run.file] = run.embedded]]

RECURSIVE Power10(_)
Power10(n) == IF n <= 0 THEN 1 ELSE 10 * Power10(n - 1)

Scale == Power10(ValueDigits - DecimalPlaces)

\* parseFloat(value.toFixed(4)): the nearest multiple of 1e-4, halves away from zero.
RoundValue(v) ==
    IF v >= 0 THEN ((v + Scale \div 2) \div Scale) * Scale
    ELSE -((((-v) + Scale \div 2) \div Scale) * Scale)

\* chunksToCache
RoundChunks(chunks) ==
    [i \in DOMAIN chunks |->
        [chunks[i] EXCEPT !.embedding = [j \in DOMAIN @ |-> RoundValue(@[j])]]]

----------------------------------------------------------------------------
(* Similarity. A similarity dot / sqrt(m) is kept as the pair of dot and m > 0, so *)
(* that values are compared exactly; the rounding of floating point is left out.   *)

RECURSIVE Dot(_, _, _)
\* vecA.reduce((sum, a, i) => sum + a * (vecB[i] || 0), 0), from index i on.
Dot(vecA, vecB, i) ==
    IF i > Len(vecA) THEN 0
    ELSE vecA[i] * (IF i \in DOMAIN vecB THEN vecB[i] ELSE 0) + Dot(vecA, vecB, i + 1)

\* The square of the magnitude.
Norm2(vec) == Dot(vec, vec, 1)

Zero == [dot |-> 0, m |-> 1]

\* s > t for two similarities.
Greater(s, t) ==
    IF s.dot > 0 /\ t.dot > 0 THEN s.dot * s.dot * t.m > t.dot * t.dot * s.m
    ELSE IF s.dot < 0 /\ t.dot < 0 THEN s.dot * s.dot * t.m < t.dot * t.dot * s.m
    ELSE s.dot > t.dot

\* cosineSimilarity without the test of the lengths.
cosineSimilarityPadded(vecA, vecB) ==
    IF Norm2(vecA) = 0 \/ Norm2(vecB) = 0 THEN Zero
    ELSE [dot |-> Dot(vecA, vecB, 1), m |-> Norm2(vecA) * Norm2(vecB)]

\* cosineSimilarity (part_004 lines 32-39). Its arguments are never null: the caller
\* tests the answer's vector (part_001 line 92) and only chunks with a vector are kept.
cosineSimilarity(vecA, vecB) ==
    IF Len(vecA) # Len(vecB) THEN Zero
    ELSE IF Norm2(vecA) = 0 \/ Norm2(vecB) = 0 THEN Zero
    ELSE [dot |-> Dot(vecA, vecB, 1), m |-> Norm2(vecA) * Norm2(vecB)]

\* The loop of findMaxSimilarity returning the similarity of the first chunk.
findFirstSimilarity(answerEmbedding, chunks, i, maxSimilarity) ==
    IF i > Len(chunks) THEN maxSimilarity
    ELSE cosineSimilarity(answerEmbedding, chunks[1].embedding)

RECURSIVE MaxFrom(_, _, _, _)
\* The loop of findMaxSimilarity from chunk i on (part_004 lines 275-281).
MaxFrom(answerEmbedding, chunks, i, maxSimilarity) ==
    IF i > Len(chunks) THEN maxSimilarity
    ELSE LET similarity == cosineSimilarity(answerEmbedding, chunks[i].embedding) IN
         MaxFrom(answerEmbedding, chunks, i + 1,
                 IF Greater(similarity, maxSimilarity) THEN similarity ELSE maxSimilarity)

\* findMaxSimilarity (part_004 lines 271-283)
findMaxSimilarity(answerEmbedding, chunks) ==
    IF chunks = <<>> THEN Zero
    ELSE MaxFrom(answerEmbedding, chunks, 1, Zero)

----------------------------------------------------------------------------
(* ChatView: the listener *)

\* The `disabled` argument of setInputState in each case of the switch.
DisabledFor(status, text) ==
    IF status = "complete" THEN text = <<>> ELSE TRUE

\* inputEl.disabled after updateProcessingState({status}) when it was `disabled`.
updateProcessingState(status, text, started, disabled) ==
    IF started THEN disabled ELSE DisabledFor(status, text)

RECURSIVE Deliver(_, _, _)
\* inputEl.disabled after this.onStateChange?.(s) for each s of `states` in turn.
Deliver(states, text, disabled) ==
    IF states = <<>> \/ onStateChange # "view" THEN disabled
    ELSE Deliver(Tail(states), text,
                 updateProcessingState(Head(states).status, text, hasChatStarted, disabled))

St(status) == [status |-> status]
Embedding(progress, total) == [status |-> "embedding", progress |-> progress, total |-> total]

\* The calls this.onStateChange?.(s), s in `states`, made while currentPdfText is `text`.
Emit(states, text) ==
    /\ inputDisabled' = Deliver(states, text, inputDisabled)
    /\ secondView' = IF states = <<>> \/ onStateChange # "other" THEN secondView
                      ELSE [secondView EXCEPT
                               !.disabled = DisabledFor(states[Len(states)].status, text)]
    /\ lastBroadcast' = IF states = <<>> THEN lastBroadcast ELSE states[Len(states)].status
    /\ UNCHANGED <<onStateChange, viewOpen, viewDetached, hasChatStarted>>

----------------------------------------------------------------------------
(* MyPlugin.preparePdf *)

NewRun(file) ==
    [pc |-> "saving", file |-> file, trace |-> <<>>, todo |-> <<>>, processed |-> 0,
     inFlight |-> 0, embedded |-> <<>>, toWrite |-> <<>>, requests |-> 0, vectors |-> 0,
     returned |-> <<>>, asked |-> <<>>, binaryRead |-> FALSE, corrupt |-> FALSE, how |-> ""]

Active(run) == run.pc \notin {"ended", "crashed"}

LiveRuns == SelectSeq(runs, Active)

\* The run r after broadcasting `states` and moving to `pc`.
Moved(r, pc, states) == [runs[r] EXCEPT !.pc = pc, !.trace = @ \o states]

\* The run r after broadcasting `states` and returning.
Ended(r, how, states) ==
    [runs[r] EXCEPT !.pc = "ended", !.how = how, !.trace = @ \o states, !.inFlight = 0]

ReentrantNever == FALSE

\* if (this.isProcessing) { return; }
Reentrant == isProcessing

\* Lines 132-142 without the test of the API key (lines 136-140).
preparePdfUnchecked(file) ==
    IF Reentrant
    THEN /\ lastCall' = "rejected"
         /\ UNCHANGED <<apiKey, embeddingModel, concurrency, lastProcessedFile, currentPdfText,
                        currentPdfChunks, isProcessing, cache, runs, pendingIdle>>
    ELSE /\ Len(LiveRuns) < MaxRuns
         /\ lastCall' = "started"
         /\ isProcessing' = TRUE
         /\ lastProcessedFile' = file
         /\ runs' = Append(LiveRuns, NewRun(file))
         /\ UNCHANGED <<apiKey, embeddingModel, concurrency, currentPdfText,
                        currentPdfChunks, cache, pendingIdle>>

\* Lines 132-142: the call, up to the first await.
preparePdf(file) ==
    IF Reentrant
    THEN /\ lastCall' = "rejected"
         /\ UNCHANGED <<apiKey, embeddingModel, concurrency, lastProcessedFile, currentPdfText,
                        currentPdfChunks, isProcessing, cache, runs, pendingIdle>>
    ELSE IF ~apiKey
    THEN /\ lastCall' = "nokey"
         /\ isProcessing' = FALSE
         /\ UNCHANGED <<apiKey, embeddingModel, concurrency, lastProcessedFile, currentPdfText,
                        currentPdfChunks, cache, runs, pendingIdle>>
    ELSE /\ Len(LiveRuns) < MaxRuns
         /\ lastCall' = "started"
         /\ isProcessing' = TRUE
         /\ lastProcessedFile' = file
         /\ runs' = Append(LiveRuns, NewRun(file))
         /\ UNCHANGED <<apiKey, embeddingModel, concurrency, currentPdfText,
                        currentPdfChunks, cache, pendingIdle>>

\* The test of line 67 without its second half.
ShouldIngestByPath(file) == lastProcessedFile # file

\* this.settings.lastProcessedFile !== file.path || !this.currentPdfText
ShouldIngest(file) == lastProcessedFile # file \/ currentPdfText = <<>>

\* processActiveLeaf for a leaf showing the PDF `file` (lines 61-72).
OpenPdf(file) ==
    /\ IF ShouldIngest(file)
       THEN preparePdf(file)
       ELSE /\ lastCall' = "skipped"
            /\ UNCHANGED <<apiKey, embeddingModel, concurrency, lastProcessedFile,
                           currentPdfText, currentPdfChunks, isProcessing, cache, runs,
                           pendingIdle>>
    /\ UNCHANGED <<viewVars, chatVars>>

\* await this.saveSettings() resolved (line 142); searching_cache; the delay starts.
SaveDone(r) ==
    /\ runs[r].pc = "saving"
    /\ runs' = [runs EXCEPT ![r] = Moved(r, "searching", <<St("searching_cache")>>)]
    /\ Emit(<<St("searching_cache")>>, currentPdfText)
    /\ lastCall' = "none"
    /\ UNCHANGED <<apiKey, embeddingModel, concurrency, lastProcessedFile, currentPdfText,
                   currentPdfChunks, isProcessing, cache, pendingIdle, chatVars>>

\* await this.saveSettings() rejected: the exception leaves preparePdf.
SaveFailed(r) ==
    /\ runs[r].pc = "saving"
    /\ runs' = [runs EXCEPT ![r] = Moved(r, "crashed", <<>>)]
    /\ lastCall' = "none"
    /\ UNCHANGED <<apiKey, embeddingModel, concurrency, lastProcessedFile, currentPdfText,
                   currentPdfChunks, isProcessing, cache, pendingIdle, viewVars,
                   chatVars>>

\* The delay and adapter.exists(cachePath) resolved (lines 145-151, 167-169).
ExistsDone(r) ==
    /\ runs[r].pc = "searching"
    /\ IF cache[cacheFileName(runs[r].file)].state # "absent"
       THEN /\ runs' = [runs EXCEPT ![r] = Moved(r, "loading", <<St("loading_cache")>>)]
            /\ Emit(<<St("loading_cache")>>, currentPdfText)
       ELSE /\ runs' = [runs EXCEPT ![r] =
                           [Moved(r, "reading", <<St("reading")>>) EXCEPT !.binaryRead = TRUE]]
            /\ Emit(<<St("reading")>>, currentPdfText)
    /\ lastCall' = "none"
    /\ UNCHANGED <<apiKey, embeddingModel, concurrency, lastProcessedFile, currentPdfText,
                   currentPdfChunks, isProcessing, cache, pendingIdle, chatVars>>

\* adapter.exists(cachePath) rejected: the exception leaves preparePdf.
ExistsFailed(r) ==
    /\ runs[r].pc = "searching"
    /\ runs' = [runs EXCEPT ![r] = Moved(r, "crashed", <<>>)]
    /\ lastCall' = "none"
    /\ UNCHANGED <<apiKey, embeddingModel, concurrency, lastProcessedFile, currentPdfText,
                   currentPdfChunks, isProcessing, cache, pendingIdle, viewVars,
                   chatVars>>

\* A cache that cannot be read treated as a failure of the run.
CacheUnreadableAborts(r) ==
    /\ runs' = [runs EXCEPT ![r] =
                   [Ended(r, "error", <<St("error"), St("complete")>>) EXCEPT !.corrupt = TRUE]]
    /\ Emit(<<St("error"), St("complete")>>, currentPdfText)
    /\ isProcessing' = FALSE
    /\ UNCHANGED <<currentPdfText, currentPdfChunks>>

\* The catch of lines 161-164, then lines 167-169.
CacheUnreadable(r) ==
    /\ runs' = [runs EXCEPT ![r] =
                   [Moved(r, "reading", <<St("reading")>>) EXCEPT !.binaryRead = TRUE,
                                                                   !.corrupt = TRUE]]
    /\ Emit(<<St("reading")>>, currentPdfText)
    /\ UNCHANGED <<currentPdfText, currentPdfChunks, isProcessing>>

ParsedCacheTruncated(content) == Pop(content.chunks)

\* const cache: PdfCache = JSON.parse(cacheData); cache.chunks
ParsedCache(content) == content.chunks

\* adapter.read(cachePath) resolved (lines 153-165).
CacheReadDone(r) ==
    /\ runs[r].pc = "loading"
    /\ LET content == cache[cacheFileName(runs[r].file)] IN
       IF content.state = "valid"
       THEN /\ currentPdfChunks' = ParsedCache(content)
            /\ currentPdfText' = CachedText(ParsedCache(content))
            /\ isProcessing' = FALSE
            /\ runs' = [runs EXCEPT ![r] = Ended(r, "hit", <<St("complete")>>)]
            /\ Emit(<<St("complete")>>, CachedText(ParsedCache(content)))
       ELSE CacheUnreadable(r)
    /\ lastCall' = "none"
    /\ UNCHANGED <<apiKey, embeddingModel, concurrency, lastProcessedFile, cache,
                   pendingIdle, chatVars>>

\* adapter.read(cachePath) rejected.
CacheReadFailed(r) ==
    /\ runs[r].pc = "loading"
    /\ CacheUnreadable(r)
    /\ lastCall' = "none"
    /\ UNCHANGED <<apiKey, embeddingModel, concurrency, lastProcessedFile, cache,
                   pendingIdle, chatVars>>

Min(a, b) == IF a < b THEN a ELSE b

\* A catch without the finally block.
FailedWithoutFinally(r, run, states) ==
    /\ runs' = [runs EXCEPT ![r] =
                   [run EXCEPT !.pc = "ended", !.how = "error", !.inFlight = 0,
                               !.trace = @ \o states \o <<St("error")>>]]
    /\ UNCHANGED isProcessing

\* catch (line 211-213) and finally (lines 214-217).
Failed(r, run, states) ==
    /\ runs' = [runs EXCEPT ![r] =
                   [run EXCEPT !.pc = "ended", !.how = "error", !.inFlight = 0,
                               !.trace = @ \o states \o <<St("error"), St("complete")>>]]
    /\ isProcessing' = FALSE

\* A normal end that broadcasts nothing.
FinishedSilently(r, run, states) ==
    /\ runs' = [runs EXCEPT ![r] =
                   [run EXCEPT !.pc = "ended", !.how = "full", !.inFlight = 0,
                               !.trace = @ \o states]]
    /\ isProcessing' = FALSE

\* finally (lines 214-217) after the try block ran to its end.
Finished(r, run, states) ==
    /\ runs' = [runs EXCEPT ![r] =
                   [run EXCEPT !.pc = "ended", !.how = "full", !.inFlight = 0,
                               !.trace = @ \o states \o <<St("complete")>>]]
    /\ isProcessing' = FALSE

\* Lines 186-210 from the loop test on: `run` is the run so far, `states` what it has
\* broadcast since its last await, `chunks` and `text` the plugin's fields now.
\* getEmbedding throws before its request when no embedding model is selected (line 222).
Loop(r, run, states, chunks, text) ==
    LET total == Len(run.todo)
        batchLen == Min(concurrency, total - run.processed)
        progress == states \o <<Embedding(run.processed, total)>>
    IN  IF run.processed < total
        THEN IF embeddingModel
             THEN /\ runs' = [runs EXCEPT ![r] =
                                 [run EXCEPT !.pc = "embedding", !.trace = @ \o progress,
                                             !.inFlight = batchLen,
                                             !.requests = @ + batchLen,
                                             !.asked = @ \o [k \in 1..batchLen |->
                                                                 run.processed + k]]]
                  /\ UNCHANGED isProcessing
                  /\ Emit(progress, text)
             ELSE /\ Failed(r, run, progress)
                  /\ Emit(progress \o <<St("error"), St("complete")>>, text)
        ELSE IF chunks # <<>>
             THEN /\ runs' = [runs EXCEPT ![r] =
                                 [run EXCEPT !.pc = "writing", !.trace = @ \o progress,
                                             !.inFlight = 0, !.embedded = chunks,
                                             !.toWrite = RoundChunks(chunks)]]
                  /\ UNCHANGED isProcessing
                  /\ Emit(progress, text)
             ELSE /\ Finished(r, run, progress)
                  /\ Emit(progress \o <<St("complete")>>, text)

\* readBinary and parsePdf resolved (lines 169-191); parsePdf returns "" when pdf.js fails.
ReadDone(r, parsed) ==
    /\ runs[r].pc = "reading"
    /\ LET text == IF parsed THEN ParsedText(runs[r].file) ELSE <<>>
           chunksToEmbed == splitIntoChunks(text)
       IN  /\ currentPdfText' = text
           /\ currentPdfChunks' = <<>>
           /\ IF chunksToEmbed = <<>>
              THEN /\ runs' = [runs EXCEPT ![r] =
                                  Ended(r, "zero", <<St("chunking"), St("complete"),
                                                     St("complete")>>)]
                   /\ isProcessing' = FALSE
                   /\ Emit(<<St("chunking"), St("complete"), St("complete")>>, text)
              ELSE Loop(r, [runs[r] EXCEPT !.todo = chunksToEmbed], <<St("chunking")>>,
                        <<>>, text)
    /\ lastCall' = "none"
    /\ UNCHANGED <<apiKey, embeddingModel, concurrency, lastProcessedFile, cache,
                   pendingIdle, chatVars>>

\* vault.readBinary(file) rejected (lines 211-217).
ReadBinaryFailed(r) ==
    /\ runs[r].pc = "reading"
    /\ Failed(r, runs[r], <<>>)
    /\ Emit(<<St("error"), St("complete")>>, currentPdfText)
    /\ lastCall' = "none"
    /\ UNCHANGED <<apiKey, embeddingModel, concurrency, lastProcessedFile, currentPdfText,
                   currentPdfChunks, cache, pendingIdle, chatVars>>

\* What the remote call of one embedding request did: the response carried a vector at
\* embedding.values, the response had no such field, or requestUrl rejected (transport
\* or API error).
Outcomes == {"values", "no_values", "rejected"}

\* getEmbedding without its try/catch: a rejection of requestUrl reaches the caller.
getEmbeddingUncaught(values, outcome) ==
    [thrown |-> outcome = "rejected", null |-> outcome = "no_values",
     values |-> IF outcome = "values" THEN values ELSE <<>>]

\* getEmbedding from its request on (lines 224-235): `values` is the vector the service
\* computes for the text. The result is null or the vector; `thrown` tells whether the
\* returned promise rejected.
getEmbedding(values, outcome) ==
    [thrown |-> FALSE, null |-> outcome # "values",
     values |-> IF outcome = "values" THEN values ELSE <<>>]

\* batch.forEach without the test of line 195: every chunk of the batch is kept.
EmbeddedAlways(batch, ok, i) ==
    [k \in 1..Len(batch) |-> [text |-> batch[k].text, page |-> batch[k].page,
                              embedding |-> RemoteEmbedding(batch[k].text)]]

RECURSIVE Embedded(_, _, _)
\* batch.forEach: the chunks of the batch from index i on whose embedding is not null.
Embedded(batch, ok, i) ==
    IF i > Len(batch) THEN <<>>
    ELSE (IF ok[i]
          THEN <<[text |-> batch[i].text, page |-> batch[i].page,
                  embedding |-> RemoteEmbedding(batch[i].text)]>>
          ELSE <<>>) \o Embedded(batch, ok, i + 1)

\* Promise.all(promises) settled (lines 191-210): outcomes[i] is what the remote call of
\* request i did. A rejected promise rejects Promise.all and lands in the catch block.
BatchDone(r, outcomes) ==
    /\ runs[r].pc = "embedding"
    /\ LET run == runs[r]
           batch == SubSeq(run.todo, run.processed + 1, run.processed + run.inFlight)
           embeddings == [i \in DOMAIN batch |->
                             getEmbedding(RemoteEmbedding(batch[i].text), outcomes[i])]
           ok == [i \in DOMAIN batch |-> ~embeddings[i].null]
           chunks == currentPdfChunks \o Embedded(batch, ok, 1)
       IN  IF \E i \in DOMAIN batch : embeddings[i].thrown
           THEN /\ Failed(r, run, <<>>)
                /\ Emit(<<St("error"), St("complete")>>, currentPdfText)
                /\ UNCHANGED currentPdfChunks
           ELSE /\ currentPdfChunks' = chunks
                /\ Loop(r, [run EXCEPT !.processed = @ + Len(batch),
                                        !.vectors = @ + Cardinality({i \in DOMAIN ok : ok[i]}),
                                        !.returned = @ \o Embedded(batch, ok, 1)],
                        <<>>, chunks, currentPdfText)
    /\ lastCall' = "none"
    /\ UNCHANGED <<apiKey, embeddingModel, concurrency, lastProcessedFile, currentPdfText,
                   cache, pendingIdle, chatVars>>

\* adapter.write(cachePath, ...) resolved (lines 208-217).
WriteDone(r) ==
    /\ runs[r].pc = "writing"
    /\ cache' = [cache EXCEPT ![cacheFileName(runs[r].file)] = Stored(@, runs[r])]
    /\ Finished(r, runs[r], <<>>)
    /\ Emit(<<St("complete")>>, currentPdfText)
    /\ lastCall' = "none"
    /\ UNCHANGED <<apiKey, embeddingModel, concurrency, lastProcessedFile, currentPdfText,
                   currentPdfChunks, pendingIdle, chatVars>>

\* adapter.write(cachePath, ...) rejected (lines 211-217).
WriteFailed(r) ==
    /\ runs[r].pc = "writing"
    /\ Failed(r, runs[r], <<>>)
    /\ Emit(<<St("error"), St("complete")>>, currentPdfText)
    /\ lastCall' = "none"
    /\ UNCHANGED <<apiKey, embeddingModel, concurrency, lastProcessedFile, currentPdfText,
                   currentPdfChunks, cache, pendingIdle, chatVars>>

----------------------------------------------------------------------------
(* MyPlugin.processActiveLeaf for the other views *)

\* A leaf that is neither a PDF nor the chat view became active (lines 74-78).
ActivateOther ==
    /\ IF currentPdfText # <<>>
       THEN /\ pendingIdle < MaxPendingIdle
            /\ currentPdfText' = <<>>
            /\ currentPdfChunks' = <<>>
            /\ lastProcessedFile' = NoFile
            /\ pendingIdle' = pendingIdle + 1
       ELSE UNCHANGED <<currentPdfText, currentPdfChunks, lastProcessedFile, pendingIdle>>
    /\ UNCHANGED <<apiKey, embeddingModel, concurrency, isProcessing, cache, runs,
                   lastCall, viewVars, chatVars>>

\* The chat view became active (line 73).
ActivateChat ==
    UNCHANGED vars

\* await this.saveSettings() resolved (lines 78-79).
IdleSaveDone ==
    /\ pendingIdle > 0
    /\ pendingIdle' = pendingIdle - 1
    /\ Emit(<<St("idle")>>, currentPdfText)
    /\ UNCHANGED <<apiKey, embeddingModel, concurrency, lastProcessedFile, currentPdfText,
                   currentPdfChunks, isProcessing, cache, runs, lastCall, chatVars>>

\* await this.saveSettings() rejected (line 78).
IdleSaveFailed ==
    /\ pendingIdle > 0
    /\ pendingIdle' = pendingIdle - 1
    /\ UNCHANGED <<apiKey, embeddingModel, concurrency, lastProcessedFile, currentPdfText,
                   currentPdfChunks, isProcessing, cache, runs, lastCall, viewVars,
                   chatVars>>

----------------------------------------------------------------------------
(* Settings tab and the file system *)

\* The API key field changed (SampleSettingTab.display, lines 283-286).
SetApiKey(set) ==
    /\ apiKey # set
    /\ apiKey' = set
    /\ UNCHANGED <<embeddingModel, concurrency, lastProcessedFile, currentPdfText,
                   currentPdfChunks, isProcessing, cache, runs, pendingIdle, lastCall,
                   viewVars, chatVars>>

\* Refresh filled the embedding model dropdown, whose options are the models the
\* service lists: a model is selected (SampleSettingTab.display, lines 313-332).
SetEmbeddingModel ==
    /\ ~embeddingModel
    /\ embeddingModel' = TRUE
    /\ UNCHANGED <<apiKey, concurrency, lastProcessedFile, currentPdfText,
                   currentPdfChunks, isProcessing, cache, runs, pendingIdle, lastCall,
                   viewVars, chatVars>>

\* A cache file is damaged outside the plugin.
CorruptCache(name) ==
    /\ cache[name].state = "valid"
    /\ cache' = [cache EXCEPT ![name] = Corrupt(@)]
    /\ UNCHANGED <<apiKey, embeddingModel, concurrency, lastProcessedFile, currentPdfText,
                   currentPdfChunks, isProcessing, runs, pendingIdle, lastCall,
                   viewVars, chatVars>>

----------------------------------------------------------------------------
(* ChatView.onOpen / onClose *)

\* onOpen of a new view (part_001 lines 31-121): registers the listener and shows the state.
OpenView ==
    /\ ~viewOpen
    /\ viewOpen' = TRUE
    /\ viewDetached' = FALSE
    /\ onStateChange' = "view"
    /\ secondView' = [secondView EXCEPT !.latest = "view"]
    /\ hasChatStarted' = FALSE
    /\ inputDisabled' = updateProcessingState(
            IF currentPdfText # <<>> THEN "complete" ELSE "idle", currentPdfText, FALSE, TRUE)
    /\ conversationHistory' = <<>>
    /\ turns' = <<>>
    /\ lastRequest' = <<>>
    /\ UNCHANGED <<pluginVars, lastBroadcast, attachedScreenshot, nextTurn, lastClick>>

\* onClose (part_001 lines 123-127) and the removal of the view's elements. What the closed
\* view holds is not observable any more, except that a click may still reach its button.
CloseView ==
    /\ viewOpen
    /\ viewOpen' = FALSE
    /\ viewDetached' = TRUE
    /\ onStateChange' = Null
    /\ hasChatStarted' = FALSE
    /\ attachedScreenshot' = FALSE
    /\ conversationHistory' = <<>>
    /\ turns' = <<>>
    /\ lastClick' = "none"
    /\ lastRequest' = <<>>
    /\ UNCHANGED <<pluginVars, lastBroadcast, secondView, inputDisabled, nextTurn>>

\* A second ChatView is opened in another leaf: its onOpen (part_001 lines 117-120).
\* No chat is started in it, so its listener always sets its input.
OpenSecondView ==
    /\ ~secondView.open
    /\ secondView' = [open |-> TRUE,
                      disabled |-> DisabledFor(IF currentPdfText # <<>> THEN "complete"
                                               ELSE "idle", currentPdfText),
                      latest |-> "other"]
    /\ onStateChange' = "other"
    /\ UNCHANGED <<pluginVars, lastBroadcast, viewOpen, viewDetached, hasChatStarted,
                   inputDisabled, chatVars>>

\* onClose of the second ChatView (part_001 lines 123-127).
CloseSecondView ==
    /\ secondView.open
    /\ secondView' = [secondView EXCEPT !.open = FALSE, !.disabled = TRUE]
    /\ onStateChange' = Null
    /\ UNCHANGED <<pluginVars, lastBroadcast, viewOpen, viewDetached, hasChatStarted,
                   inputDisabled, chatVars>>

----------------------------------------------------------------------------
(* ChatView: the conversation *)

TextPart(n) == [kind |-> "text", n |-> n, body |-> <<>>]
ImagePart(n) == [kind |-> "image", n |-> n, body |-> <<>>]
\* systemPrompt: the instructions around `--- PDF CONTENT ---` and the document text.
Preamble(text) == [kind |-> "preamble", n |-> 0, body |-> text]
\* candidates[0].content.parts[0].text of the response to turn n.
AnswerPart(n) == [kind |-> "answer", n |-> n, body |-> <<>>]

UserTurn(parts) == [role |-> "user", parts |-> parts]
ModelTurn(n) == [role |-> "model", parts |-> <<AnswerPart(n)>>]

PlainHistoryWhole(history) == history

\* this.conversationHistory.slice(0, -1)
PlainHistory(history) == SubSeq(history, 1, Len(history) - 1)

\* requestBody.contents
RequestContents(history, text, userParts) ==
    PlainHistory(history) \o <<UserTurn(<<Preamble(text)>> \o userParts)>>

\* The turns other than the one at position t.
Without(t) == [i \in 1..(Len(turns) - 1) |-> IF i < t THEN turns[i] ELSE turns[i + 1]]

\* A guard that only looks for something to send.
SendRejectedWhenEmpty(typed) == ~typed /\ ~attachedScreenshot

\* The guard of the send handler (part_001 line 60, chat-view.ts line 270).
SendRejected(typed) ==
    (~typed /\ ~attachedScreenshot) \/ ~viewOpen \/ inputDisabled

\* A click on Send with or without text in the input (part_001 lines 51-81,
\* chat-view.ts lines 260-311), up to the await of requestUrl.
SendClick(typed) ==
    /\ viewOpen \/ viewDetached
    /\ hasChatStarted' = TRUE
    /\ IF SendRejected(typed)
       THEN /\ lastClick' = "rejected"
            /\ lastRequest' = <<>>
            /\ UNCHANGED <<attachedScreenshot, conversationHistory, turns, nextTurn>>
       ELSE /\ nextTurn <= MaxTurns
            /\ Len(turns) < MaxInFlight
            /\ LET userParts == (IF typed THEN <<TextPart(nextTurn)>> ELSE <<>>)
                                \o (IF attachedScreenshot THEN <<ImagePart(nextTurn)>>
                                    ELSE <<>>)
                   history == Append(conversationHistory, UserTurn(userParts))
               IN  /\ conversationHistory' = history
                   /\ turns' = Append([i \in DOMAIN turns |-> [turns[i] EXCEPT !.alone = FALSE]],
                          [n |-> nextTurn, pc |-> "sent", connected |-> TRUE,
                           userParts |-> userParts,
                           before |-> conversationHistory, cleared |-> FALSE,
                           alone |-> turns = <<>>])
                   /\ lastRequest' = RequestContents(history, currentPdfText, userParts)
            /\ attachedScreenshot' = FALSE
            /\ nextTurn' = nextTurn + 1
            /\ lastClick' = "sent"
    /\ UNCHANGED <<pluginVars, onStateChange, lastBroadcast, viewOpen, viewDetached,
                   secondView, inputDisabled>>

\* The mouse selection on the PDF ended with an area (chat-view.ts lines 487-519).
AttachScreenshot ==
    /\ viewOpen
    /\ ~attachedScreenshot
    /\ attachedScreenshot' = TRUE
    /\ UNCHANGED <<pluginVars, viewVars, conversationHistory, turns, nextTurn, lastRequest,
                   lastClick>>

\* requestUrl resolved with at least one candidate (part_001 lines 83-87): the answer is
\* rendered when the bubble is still attached, otherwise the handler ends.
ResponseAnswered(t) ==
    /\ turns[t].pc = "sent"
    /\ turns' = IF turns[t].connected THEN [turns EXCEPT ![t].pc = "rendering"]
                ELSE Without(t)
    /\ lastClick' = "none"
    /\ lastRequest' = <<>>
    /\ UNCHANGED <<pluginVars, viewVars, attachedScreenshot, conversationHistory, nextTurn>>

\* MarkdownRenderer.render resolved (part_001 lines 87-91, 108-110): the model turn is
\* pushed and getEmbedding(answer) is called; it throws when no embedding model is
\* selected, and the catch pops the history.
RenderDone(t) ==
    /\ turns[t].pc = "rendering"
    /\ LET history == Append(conversationHistory, ModelTurn(turns[t].n)) IN
       IF embeddingModel
       THEN /\ conversationHistory' = history
            /\ turns' = [turns EXCEPT ![t].pc = "scoring"]
       ELSE /\ conversationHistory' = Pop(history)
            /\ turns' = Without(t)
    /\ lastClick' = "none"
    /\ lastRequest' = <<>>
    /\ UNCHANGED <<pluginVars, viewVars, attachedScreenshot, nextTurn>>

\* getEmbedding(answer) resolved with a vector or null (part_001 lines 91-100).
ScoreDone(t) ==
    /\ turns[t].pc = "scoring"
    /\ turns' = Without(t)
    /\ lastClick' = "none"
    /\ lastRequest' = <<>>
    /\ UNCHANGED <<pluginVars, viewVars, attachedScreenshot, conversationHistory, nextTurn>>

\* requestUrl resolved without candidates (part_001 lines 83, 103-106).
ResponseBlocked(t) ==
    /\ turns[t].pc = "sent"
    /\ conversationHistory' = IF turns[t].connected THEN Pop(conversationHistory)
                              ELSE conversationHistory
    /\ turns' = Without(t)
    /\ lastClick' = "blocked"
    /\ lastRequest' = <<>>
    /\ UNCHANGED <<pluginVars, viewVars, attachedScreenshot, nextTurn>>

\* requestUrl or MarkdownRenderer.render rejected (part_001 lines 108-110).
TurnFailed(t) ==
    /\ turns[t].pc \in {"sent", "rendering"}
    /\ conversationHistory' = Pop(conversationHistory)
    /\ turns' = Without(t)
    /\ lastClick' = "failed"
    /\ lastRequest' = <<>>
    /\ UNCHANGED <<pluginVars, viewVars, attachedScreenshot, nextTurn>>

\* A click on Clear Chat (part_001 lines 38-45, chat-view.ts lines 187-195).
ClearClick ==
    /\ viewOpen
    /\ conversationHistory' = <<>>
    /\ turns' = [i \in DOMAIN turns |-> [turns[i] EXCEPT !.connected = FALSE,
                                                          !.cleared = TRUE]]
    /\ hasChatStarted' = FALSE
    /\ inputDisabled' = updateProcessingState(
            IF currentPdfText # <<>> THEN "complete" ELSE "idle", currentPdfText, FALSE,
            inputDisabled)
    /\ lastClick' = "none"
    /\ lastRequest' = <<>>
    /\ UNCHANGED <<pluginVars, onStateChange, lastBroadcast, viewOpen, viewDetached,
                   secondView, attachedScreenshot, nextTurn>>

----------------------------------------------------------------------------
(* The ingestion pipeline under every outcome of its awaited operations *)

Init ==
    /\ apiKey \in BOOLEAN
    /\ embeddingModel \in BOOLEAN
    /\ concurrency \in 1..MaxConcurrency
    /\ lastProcessedFile = NoFile
    /\ currentPdfText = <<>>
    /\ currentPdfChunks = <<>>
    /\ isProcessing = FALSE
    /\ onStateChange = Null
    /\ cache = [n \in CacheFiles |-> Absent]
    /\ runs = <<>>
    /\ pendingIdle = 0
    /\ lastCall = "none"
    /\ lastBroadcast = "none"
    /\ viewOpen = FALSE
    /\ viewDetached = FALSE
    /\ secondView = [open |-> FALSE, disabled |-> TRUE, latest |-> "none"]
    /\ hasChatStarted = FALSE
    /\ inputDisabled = TRUE
    /\ attachedScreenshot = FALSE
    /\ conversationHistory = <<>>
    /\ turns = <<>>
    /\ nextTurn = 1
    /\ lastRequest = <<>>
    /\ lastClick = "none"

RunStep(r) ==
    \/ SaveDone(r)
    \/ SaveFailed(r)
    \/ ExistsDone(r)
    \/ ExistsFailed(r)
    \/ CacheReadDone(r)
    \/ CacheReadFailed(r)
    \/ \E parsed \in BOOLEAN : ReadDone(r, parsed)
    \/ ReadBinaryFailed(r)
    \/ \E outcomes \in [1..runs[r].inFlight -> Outcomes] : BatchDone(r, outcomes)
    \/ WriteDone(r)
    \/ WriteFailed(r)

\* The documents opened here: one with chunks and one without.
IngestDocs == {PathA, PathC}

Next ==
    \/ \E file \in IngestDocs : OpenPdf(file)
    \/ \E r \in DOMAIN runs : RunStep(r)
    \/ ActivateOther
    \/ ActivateChat
    \/ IdleSaveDone
    \/ IdleSaveFailed
    \/ \E set \in BOOLEAN : SetApiKey(set)
    \/ SetEmbeddingModel
    \/ \E name \in CacheFiles : CorruptCache(name)
    \/ OpenView
    \/ CloseView

Spec == Init /\ [][Next]_vars

----------------------------------------------------------------------------
(* The conversation over one document whose ingestion meets no failure *)

ChatDoc == PathA

InitChat ==
    /\ Init
    /\ apiKey
    /\ concurrency = MaxConcurrency

ChatRunStep(r) ==
    \/ SaveDone(r)
    \/ ExistsDone(r)
    \/ CacheReadDone(r)
    \/ ReadDone(r, TRUE)
    \/ BatchDone(r, [i \in 1..runs[r].inFlight |-> "values"])
    \/ WriteDone(r)

TurnStep(t) ==
    \/ ResponseAnswered(t)
    \/ RenderDone(t)
    \/ ScoreDone(t)
    \/ ResponseBlocked(t)
    \/ TurnFailed(t)

NextChat ==
    \/ OpenPdf(ChatDoc)
    \/ \E r \in DOMAIN runs : ChatRunStep(r)
    \/ ActivateOther
    \/ IdleSaveDone
    \/ OpenView
    \/ \E typed \in BOOLEAN : SendClick(typed)
    \/ \E t \in DOMAIN turns : TurnStep(t)
    \/ ClearClick

SpecChat == InitChat /\ [][NextChat]_vars

----------------------------------------------------------------------------
(* The send handler of a view that is opened and closed, with screenshots *)

NextSend ==
    \/ OpenPdf(ChatDoc)
    \/ \E r \in DOMAIN runs : ChatRunStep(r)
    \/ OpenView
    \/ CloseView
    \/ AttachScreenshot
    \/ \E typed \in BOOLEAN : SendClick(typed)
    \/ \E t \in DOMAIN turns : TurnStep(t)

SpecSend == InitChat /\ [][NextSend]_vars

\* The same where every pending await of a run or of a turn settles in the end; the
\* user's clicks are not forced.
SpecSendFair ==
    /\ SpecSend
    /\ WF_vars(\E r \in DOMAIN runs : ChatRunStep(r))
    /\ WF_vars(\E t \in DOMAIN turns : TurnStep(t))

----------------------------------------------------------------------------
(* The cache under sequential ingestions of two documents, with requests that may *)
(* return null and cache files that may be damaged, and no other failure          *)

CacheDocs == {PathA, PathB}

InitCache ==
    /\ Init
    /\ apiKey
    /\ embeddingModel

CacheRunStep(r) ==
    \/ SaveDone(r)
    \/ ExistsDone(r)
    \/ CacheReadDone(r)
    \/ ReadDone(r, TRUE)
    \/ \E outcomes \in [1..runs[r].inFlight -> Outcomes] : BatchDone(r, outcomes)
    \/ WriteDone(r)

NextCache ==
    \/ \E file \in CacheDocs : OpenPdf(file)
    \/ \E r \in DOMAIN runs : CacheRunStep(r)
    \/ \E name \in CacheFiles : CorruptCache(name)

SpecCache == InitCache /\ [][NextCache]_vars

----------------------------------------------------------------------------
(* Two chat views over the ingestion of one document *)

NextViews ==
    \/ OpenPdf(ChatDoc)
    \/ \E r \in DOMAIN runs : ChatRunStep(r)
    \/ ActivateOther
    \/ IdleSaveDone
    \/ OpenView
    \/ CloseView
    \/ OpenSecondView
    \/ CloseSecondView

SpecViews == InitChat /\ [][NextViews]_vars

----------------------------------------------------------------------------
(* The chunker over every short text *)

Tokens ==
    {Page(n) : n \in 1..MaxPage} \cup {Para(id) : id \in {"A1", "A2", "A3", "C1"}} \cup {Sep}

\* Two paragraphs are apart by a blank line or a page marker.
WellFormed(text) ==
    \A i \in 1..(Len(text) - 1) : ~(text[i].k = "para" /\ text[i + 1].k = "para")

\* Three pages: short headers on pages 1 and 3, one paragraph of 150 characters on page 2.
ThreePages ==
    <<Page(1), Para("A2"), Sep, Page(2), Para("A1"), Sep, Page(3), Para("A2"), Sep>>

Texts ==
    {text \in UNION {[1..n -> Tokens] : n \in 0..MaxTextLen} : WellFormed(text)}
        \cup {ThreePages}

InitChunker ==
    /\ Init
    /\ apiKey
    /\ embeddingModel
    /\ concurrency = 1

\* A run has assigned `text` to currentPdfText and broadcast `chunking` (lines 169-172).
Parsed(text) ==
    /\ runs = <<>>
    /\ currentPdfText' = text
    /\ currentPdfChunks' = <<>>
    /\ lastProcessedFile' = PathA
    /\ isProcessing' = TRUE
    /\ runs' = <<[NewRun(PathA) EXCEPT !.pc = "chunking", !.binaryRead = TRUE]>>
    /\ lastCall' = "none"
    /\ UNCHANGED <<apiKey, embeddingModel, concurrency, cache, pendingIdle, viewVars,
                   chatVars>>

\* const chunksToEmbed = this.splitIntoChunks(this.currentPdfText) (line 173).
Chunked(r) ==
    /\ runs[r].pc = "chunking"
    /\ runs' = [runs EXCEPT ![r] = [@ EXCEPT !.pc = "chunked",
                                             !.todo = splitIntoChunks(currentPdfText)]]
    /\ lastCall' = "none"
    /\ UNCHANGED <<apiKey, embeddingModel, concurrency, lastProcessedFile, currentPdfText,
                   currentPdfChunks, isProcessing, cache, pendingIdle, viewVars, chatVars>>

NextChunker ==
    \/ runs = <<>> /\ \E text \in Texts : Parsed(text)
    \/ \E r \in DOMAIN runs : Chunked(r)

SpecChunker == InitChunker /\ [][NextChunker]_vars

----------------------------------------------------------------------------
(* The similarity score over every small chunk set and answer vector *)

Vectors ==
    UNION {[1..n -> (-MaxComponent)..MaxComponent] : n \in {0, 1, 2}}

ChunkSets ==
    UNION {[1..n -> {[text |-> "A1", page |-> 1, embedding |-> v] : v \in Vectors}] :
              n \in 0..MaxChunks}

\* this.currentPdfChunks = cache.chunks (part_005 line 155), for any record.
Loaded(chunks) ==
    /\ runs = <<>>
    /\ currentPdfChunks' = chunks
    /\ currentPdfText' = CachedText(chunks)
    /\ lastProcessedFile' = PathA
    /\ runs' = <<[NewRun(PathA) EXCEPT !.pc = "ended", !.how = "hit"]>>
    /\ lastCall' = "none"
    /\ UNCHANGED <<apiKey, embeddingModel, concurrency, isProcessing, cache, pendingIdle,
                   viewVars, chatVars>>

\* getEmbedding(answer) resolved with answerEmbedding, and the score is computed
\* (part_001 lines 91-93).
Scored(answerEmbedding) ==
    /\ runs # <<>>
    /\ turns = <<>>
    /\ turns' = <<[n |-> 1, pc |-> "scored", answerEmbedding |-> answerEmbedding,
                   maxSimilarity |-> findMaxSimilarity(answerEmbedding, currentPdfChunks)]>>
    /\ UNCHANGED <<pluginVars, viewVars, attachedScreenshot, conversationHistory, nextTurn,
                   lastRequest, lastClick>>

NextSimilarity ==
    \/ runs = <<>> /\ \E chunks \in ChunkSets : Loaded(chunks)
    \/ turns = <<>> /\ \E answerEmbedding \in Vectors : Scored(answerEmbedding)

SpecSimilarity == InitChunker /\ [][NextSimilarity]_vars

----------------------------------------------------------------------------
(* Properties of the ingestion pipeline *)

Last(seq) == seq[Len(seq)]

\* The statuses a run has broadcast, in order.
Statuses(run) == [i \in DOMAIN run.trace |-> run.trace[i].status]

Count(seq, x) == Cardinality({i \in DOMAIN seq : seq[i] = x})

\* C1: at every moment at most one ingestion run is between its start and its end, and
\* a call of preparePdf made while the in-progress flag is set returns at once: it starts
\* no run and changes no field of the plugin.
OneRunAtATime ==
    /\ [](Len(LiveRuns) <= 1)
    /\ [][\A file \in Docs :
            (isProcessing /\ OpenPdf(file)) =>
                /\ runs' = runs
                /\ UNCHANGED <<isProcessing, lastProcessedFile, currentPdfText,
                               currentPdfChunks, cache, lastBroadcast>>]_vars

\* A second document was opened while a run was between its start and its end.
SecondCallRejected ==
    /\ lastCall = "rejected"
    /\ LiveRuns # <<>>

\* C2: a run that passed the re-entrancy guard has, once it is over, cleared the
\* in-progress flag and broadcast `complete` last, whichever awaited operation failed.
EveryRunCompletes ==
    \A r \in DOMAIN runs :
        ~Active(runs[r]) =>
            /\ runs[r].trace # <<>>
            /\ Last(Statuses(runs[r])) = "complete"
            /\ LiveRuns = <<>> => ~isProcessing

\* C3: a run that met a throwing operation on the cache-miss path (binary read, embedding
\* batch, cache write) has broadcast `error` once, then `complete` as its very last
\* state, and has left the in-progress flag false.
ErrorThenComplete ==
    /\ [](\A r \in DOMAIN runs :
            runs[r].how = "error" =>
                /\ Len(runs[r].trace) >= 2
                /\ Statuses(runs[r])[Len(runs[r].trace) - 1] = "error"
                /\ Last(Statuses(runs[r])) = "complete"
                /\ Count(Statuses(runs[r]), "error") = 1
                /\ Count(Statuses(runs[r]), "complete") = 1
                /\ LiveRuns = <<>> => ~isProcessing)
    /\ [][\A r \in DOMAIN runs :
            (\/ ReadBinaryFailed(r)
             \/ WriteFailed(r)
             \/ /\ \/ \E parsed \in BOOLEAN : ReadDone(r, parsed)
                   \/ \E outcomes \in [1..runs[r].inFlight -> Outcomes] : BatchDone(r, outcomes)
                /\ ~embeddingModel
                /\ runs'[r].processed < Len(runs'[r].todo)) =>
                /\ runs'[r].pc = "ended"
                /\ runs'[r].how = "error"
                /\ ~isProcessing'
                /\ lastBroadcast' = "complete"]_vars

\* A run whose cache write was rejected has ended.
WriteFailureHandled ==
    \E r \in DOMAIN runs :
        /\ runs[r].how = "error"
        /\ runs[r].toWrite # <<>>
        /\ ~isProcessing

\* The sequences of the two complete runs and their prefixes followed by error, complete.
ClaimedStep(q, status) ==
    CASE q = "start" /\ status = "searching_cache" -> "searched"
      [] q = "searched" /\ status = "loading_cache" -> "loaded"
      [] q = "searched" /\ status = "reading" -> "read"
      [] q = "loaded" /\ status = "complete" -> "done"
      [] q = "read" /\ status = "chunking" -> "chunked"
      [] q \in {"chunked", "embedded"} /\ status = "embedding" -> "embedded"
      [] q = "embedded" /\ status = "complete" -> "done"
      [] q \in {"start", "searched", "loaded", "read", "chunked", "embedded"}
            /\ status = "error" -> "failed"
      [] q = "failed" /\ status = "complete" -> "done"
      [] OTHER -> "none"

RECURSIVE ClaimedState(_)
ClaimedState(statuses) ==
    IF statuses = <<>> THEN "start"
    ELSE ClaimedStep(ClaimedState(Pop(statuses)), Last(statuses))

\* C4 as stated: the states broadcast by a run that has returned are searching_cache,
\* loading_cache, complete, or searching_cache, reading, chunking, embedding (one or
\* more times), complete, or a prefix of one of these followed by error, complete.
ClaimedSequences ==
    \A r \in DOMAIN runs :
        runs[r].pc = "ended" => ClaimedState(Statuses(runs[r])) = "done"

\* The sequences preparePdf broadcasts: `reading` may follow `loading_cache`, a text
\* without chunks gives chunking, complete, complete, and `error` follows `reading` or
\* `embedding` only.
BroadcastStep(q, status) ==
    CASE q = "start" /\ status = "searching_cache" -> "searched"
      [] q = "searched" /\ status = "loading_cache" -> "loaded"
      [] q \in {"searched", "loaded"} /\ status = "reading" -> "read"
      [] q = "loaded" /\ status = "complete" -> "done"
      [] q = "read" /\ status = "chunking" -> "chunked"
      [] q = "chunked" /\ status = "complete" -> "empty"
      [] q = "empty" /\ status = "complete" -> "done"
      [] q \in {"chunked", "embedded"} /\ status = "embedding" -> "embedded"
      [] q = "embedded" /\ status = "complete" -> "done"
      [] q \in {"read", "embedded"} /\ status = "error" -> "failed"
      [] q = "failed" /\ status = "complete" -> "done"
      [] OTHER -> "none"

RECURSIVE BroadcastState(_)
BroadcastState(statuses) ==
    IF statuses = <<>> THEN "start"
    ELSE BroadcastStep(BroadcastState(Pop(statuses)), Last(statuses))

\* C4, amended: the states broadcast by a run that has returned are searching_cache,
\* loading_cache, complete (cache hit), or searching_cache, then loading_cache when a
\* cache file exists but cannot be read, then reading, chunking and either complete,
\* complete (no chunk) or embedding (one or more times), complete; error, complete
\* replaces what follows `reading` or an `embedding`. A run left by an exception of the
\* settings save or of the existence check has broadcast nothing or searching_cache
\* only. A run still under way has broadcast a prefix of these.
BroadcastSequences ==
    \A r \in DOMAIN runs :
        /\ runs[r].pc = "ended" => BroadcastState(Statuses(runs[r])) = "done"
        /\ runs[r].pc = "crashed" => BroadcastState(Statuses(runs[r])) \in {"start", "searched"}
        /\ Active(runs[r]) => BroadcastState(Statuses(runs[r])) \notin {"none", "done"}

\* A run over an unreadable cache file has returned after embedding the document anew.
FallThroughRunEnded ==
    \E r \in DOMAIN runs :
        /\ runs[r].pc = "ended"
        /\ runs[r].corrupt
        /\ runs[r].how = "full"
        /\ runs[r].requests > 0

\* C5: a run whose cache file exists and parses issues no embedding request, does not
\* read the document binary, broadcasts searching_cache, loading_cache, complete, makes
\* the cached list the active chunk set and clears the in-progress flag.
CacheHitReusesCache ==
    /\ [](\A r \in DOMAIN runs :
            runs[r].how = "hit" =>
                /\ runs[r].requests = 0
                /\ ~runs[r].binaryRead
                /\ Statuses(runs[r]) = <<"searching_cache", "loading_cache", "complete">>)
    /\ [][\A r \in DOMAIN runs :
            (/\ runs[r].pc = "loading"
             /\ cache[cacheFileName(runs[r].file)].state = "valid"
             /\ CacheReadDone(r)) =>
                /\ runs'[r].how = "hit"
                /\ currentPdfChunks' = cache[cacheFileName(runs[r].file)].chunks
                /\ ~isProcessing'
                /\ lastBroadcast' = "complete"]_vars

\* A run has ended on a cache hit that made a non-empty list the active chunk set.
CacheHitEnded ==
    \E r \in DOMAIN runs :
        /\ runs[r].how = "hit"
        /\ currentPdfChunks # <<>>
        /\ currentPdfChunks = cache[cacheFileName(runs[r].file)].chunks

----------------------------------------------------------------------------
(* Properties of the conversation *)

\* C7 as stated: when a turn ends blocked or failed and no other turn was in flight
\* during it, the history is the one before the turn was sent.
RollbackRestoresHistory ==
    [][\A t \in DOMAIN turns :
          (turns[t].alone /\ (ResponseBlocked(t) \/ TurnFailed(t))) =>
              conversationHistory' = turns[t].before]_vars

\* C7, amended: when a turn ends blocked or failed, no other turn was in flight during
\* it and Clear Chat was not clicked during it, the history is the one before the turn
\* was sent; when Clear Chat was clicked during it, the history is empty.
RollbackRestoresUnclearedHistory ==
    [][\A t \in DOMAIN turns :
          (turns[t].alone /\ (ResponseBlocked(t) \/ TurnFailed(t))) =>
              conversationHistory' = IF turns[t].cleared THEN <<>> ELSE turns[t].before]_vars

\* The second turn, sent after an answered one, was rolled back.
SecondTurnRolledBack ==
    /\ lastClick \in {"blocked", "failed"}
    /\ turns = <<>>
    /\ Len(conversationHistory) = 2
    /\ conversationHistory[2].role = "model"

\* C8: a turn that received a candidate and whose answer was rendered, with no other
\* turn in flight and no Clear Chat during it, leaves the history before the send
\* followed by its user turn and its model turn, whatever the similarity scoring does.
AnsweredTurnIsKept ==
    [][\A t \in DOMAIN turns :
          (turns[t].alone /\ ~turns[t].cleared /\ RenderDone(t)) =>
              conversationHistory' =
                  turns[t].before \o <<UserTurn(turns[t].userParts), ModelTurn(turns[t].n)>>]_vars

\* C9: the request of every accepted turn is the history before its user turn was
\* appended followed by one synthetic user turn made of the preamble and the turn's own
\* parts; the appended user turn is not among the plain entries, and no entry of the
\* history holds the preamble.
RequestIsHistoryPlusSynthetic ==
    /\ lastClick = "sent" =>
          LET turn == Last(turns) IN
          /\ Len(lastRequest) = Len(turn.before) + 1
          /\ Pop(lastRequest) = turn.before
          /\ Last(lastRequest).role = "user"
          /\ Head(Last(lastRequest).parts).kind = "preamble"
          /\ Tail(Last(lastRequest).parts) = turn.userParts
          /\ \A i \in DOMAIN lastRequest : lastRequest[i] # UserTurn(turn.userParts)
          /\ \A i \in 1..(Len(lastRequest) - 1) :
                \A j \in DOMAIN lastRequest[i].parts : lastRequest[i].parts[j].kind # "preamble"
    /\ \A i \in DOMAIN conversationHistory :
          \A j \in DOMAIN conversationHistory[i].parts :
              conversationHistory[i].parts[j].kind # "preamble"

\* The request of a second turn is in flight: it carries the first turn and its answer.
SecondRequestInFlight ==
    /\ lastClick = "sent"
    /\ Len(lastRequest) = 3
    /\ Len(conversationHistory) = 3

InProgress == {"searching_cache", "loading_cache", "reading", "chunking", "embedding", "error"}

\* C10: the input of an open view is enabled only if the most recent broadcast was
\* `complete` and a document text is loaded; it is disabled whenever the most recent
\* broadcast is a state of a run in progress.
InputFollowsBroadcasts ==
    viewOpen =>
        /\ ~inputDisabled => (lastBroadcast = "complete" /\ currentPdfText # <<>>)
        /\ lastBroadcast \in InProgress => inputDisabled

\* C11: a click on Send with neither text nor an attached image, or while the input is
\* disabled, or while the message surface is detached, appends nothing to the history
\* and sends no request.
RejectedSendChangesNothing ==
    [][\A typed \in BOOLEAN :
          (/\ SendClick(typed)
           /\ \/ ~typed /\ ~attachedScreenshot
              \/ inputDisabled
              \/ ~viewOpen) =>
              /\ conversationHistory' = conversationHistory
              /\ turns' = turns
              /\ nextTurn' = nextTurn
              /\ lastRequest' = <<>>
              /\ lastClick' = "rejected"]_vars

\* A click reached the Send button of a closed view whose input was enabled.
DetachedSendRejected ==
    /\ lastClick = "rejected"
    /\ viewDetached
    /\ ~inputDisabled

\* The `embedding` states a run has broadcast, in order.
EmbeddingBroadcasts(run) == SelectSeq(run.trace, LAMBDA s : s.status = "embedding")

\* C12: the progress values broadcast with `embedding` start at 0, strictly increase,
\* never exceed total, which is the same in every broadcast of the run, and end with
\* progress = total; a batch is issued only when every result of the batches before it
\* has been collected.
ProgressReachesTotal ==
    \A r \in DOMAIN runs :
        LET e == EmbeddingBroadcasts(runs[r]) IN
        e # <<>> =>
            /\ e[1].progress = 0
            /\ \A i \in 1..(Len(e) - 1) : e[i].progress < e[i + 1].progress
            /\ \A i \in DOMAIN e : e[i].progress <= e[i].total /\ e[i].total = e[1].total
            /\ runs[r].pc = "embedding" => Last(e).progress = runs[r].processed
            /\ runs[r].pc = "ended" => Last(e).progress = Last(e).total

\* The same for the runs whose embedding stage no exception has left.
ProgressOfUnbrokenRuns ==
    \A r \in DOMAIN runs :
        LET e == EmbeddingBroadcasts(runs[r]) IN
        (e # <<>> /\ runs[r].how # "error") =>
            /\ e[1].progress = 0
            /\ \A i \in 1..(Len(e) - 1) : e[i].progress < e[i + 1].progress
            /\ \A i \in DOMAIN e : e[i].progress <= e[i].total /\ e[i].total = e[1].total
            /\ runs[r].pc = "embedding" => Last(e).progress = runs[r].processed
            /\ runs[r].pc = "ended" => Last(e).progress = Last(e).total

\* C13: when every embedding request of a run returned null, the step that collects the
\* last batch ends the run: `complete` is broadcast and `error` never, the active chunk
\* set is empty, nothing is handed to the cache writer and the cache is unchanged.
AllNullRunWritesNothing ==
    [][\A r \in DOMAIN runs :
          (/\ runs[r].pc = "embedding"
           /\ runs'[r].processed = Len(runs[r].todo)
           /\ runs'[r].vectors = 0) =>
              /\ runs'[r].pc = "ended"
              /\ Last(runs'[r].trace).status = "complete"
              /\ \A i \in DOMAIN runs'[r].trace : runs'[r].trace[i].status # "error"
              /\ lastBroadcast' = "complete"
              /\ currentPdfChunks' = <<>>
              /\ runs'[r].toWrite = <<>>
              /\ cache' = cache
              /\ ~isProcessing']_vars

AllNullRunEnded ==
    \E r \in DOMAIN runs :
        /\ runs[r].pc = "ended"
        /\ runs[r].requests = Len(runs[r].todo)
        /\ runs[r].requests > 1
        /\ runs[r].vectors = 0

\* processActiveLeaf calls preparePdf(file): the test of line 67 passed.
IngestRequested(file) ==
    /\ OpenPdf(file)
    /\ lastProcessedFile # file \/ currentPdfText = <<>>

\* What an ingest request made without an API key leaves alone: nothing is broadcast, the
\* last-processed document, the active text and the active chunk set are unchanged, no
\* run starts (so nothing is saved, read or requested) and the cache is unchanged.
NoKeyRequestFrame ==
    /\ lastBroadcast' = lastBroadcast
    /\ inputDisabled' = inputDisabled
    /\ lastProcessedFile' = lastProcessedFile
    /\ currentPdfText' = currentPdfText
    /\ currentPdfChunks' = currentPdfChunks
    /\ runs' = runs
    /\ cache' = cache
    /\ pendingIdle' = pendingIdle

\* C14 as stated: an ingest request made while the API key is empty changes and
\* broadcasts nothing, and the in-progress flag is false after it.
NoKeyRequestLeavesFlagFalse ==
    [][\A file \in Docs :
          (IngestRequested(file) /\ ~apiKey) => (NoKeyRequestFrame /\ ~isProcessing')]_vars

\* C14 amended: an ingest request made while the API key is empty changes and broadcasts
\* nothing, and leaves the in-progress flag as it was: false unless an earlier run still
\* holds it.
NoKeyRequestChangesNothing ==
    [][\A file \in Docs :
          (IngestRequested(file) /\ ~apiKey) =>
              /\ NoKeyRequestFrame
              /\ isProcessing' = isProcessing
              /\ lastCall' = "nokey" <=> ~isProcessing']_vars

NoKeyRequestMade ==
    /\ lastCall = "nokey"
    /\ ~apiKey
    /\ currentPdfText # <<>>
    /\ lastBroadcast = "complete"

\* C15: an ingest request made while no embedding model is selected has no side effect
\* but the clearing of the in-progress flag. A model, once selected, stays selected, so
\* as long as none is selected every request so far was made without one: once the flag
\* is clear again, nothing has been broadcast, no document is recorded as last processed,
\* and the active text and the active chunk set are empty.
NoModelNoSideEffect ==
    (~embeddingModel /\ ~isProcessing) =>
        /\ lastBroadcast = "none"
        /\ lastProcessedFile = NoFile
        /\ currentPdfText = <<>>
        /\ currentPdfChunks = <<>>

\* No paragraph of `text` is long enough to become a chunk (`text` may be empty).
NothingToEmbed(text) ==
    \A i \in DOMAIN text :
        text[i].k = "para" => ParagraphLength(text[i].id) <= MinParagraphLength

\* C16: when the extraction returns empty text, or a text none of whose paragraphs is
\* long enough, the run ends at that step: it has broadcast reading, chunking and then
\* `complete`, never `error` or `embedding`; it has issued no embedding request and
\* hands nothing to the cache writer; the cache is unchanged, the active chunk set is
\* empty and the in-progress flag is clear.
InertDocumentCompletes ==
    [][\A r \in DOMAIN runs : \A parsed \in BOOLEAN :
          (/\ ReadDone(r, parsed)
           /\ NothingToEmbed(IF parsed THEN ParsedText(runs[r].file) ELSE <<>>)) =>
              LET t == runs'[r].trace IN
              /\ runs'[r].pc = "ended"
              /\ \E i, j, k \in DOMAIN t :
                     /\ i < j /\ j < k
                     /\ t[i].status = "reading"
                     /\ t[j].status = "chunking"
                     /\ t[k].status = "complete"
              /\ Last(t).status = "complete"
              /\ \A i \in DOMAIN t : t[i].status \notin {"error", "embedding"}
              /\ lastBroadcast' = "complete"
              /\ runs'[r].requests = 0
              /\ runs'[r].toWrite = <<>>
              /\ cache' = cache
              /\ currentPdfChunks' = <<>>
              /\ ~isProcessing']_vars

ShortParagraphsCompleted ==
    \E r \in DOMAIN runs :
        /\ runs[r].pc = "ended"
        /\ runs[r].how = "zero"
        /\ runs[r].file = PathC
        /\ currentPdfText = ParsedText(PathC)
        /\ lastBroadcast = "complete"

\* The chunk list p is the list o after the cache: same length and order, each chunk
\* equal in text and page, each embedding component rounded to DecimalPlaces places.
RoundTrip(o, p) ==
    /\ Len(p) = Len(o)
    /\ \A i \in DOMAIN o :
           /\ p[i].text = o[i].text
           /\ p[i].page = o[i].page
           /\ Len(p[i].embedding) = Len(o[i].embedding)
           /\ \A k \in DOMAIN o[i].embedding :
                  p[i].embedding[k] = RoundValue(o[i].embedding[k])

\* C17: once a cache-miss run for a document has written its record, a cache-hit run
\* for that document publishes the chunks that run embedded, in the same order, with
\* every embedding component rounded to 4 decimal places.
RoundTripThroughCache ==
    [][\A r \in DOMAIN runs :
          LET content == cache[cacheFileName(runs[r].file)]
              o == content.wrote[runs[r].file]
          IN  (CacheReadDone(r) /\ content.state = "valid" /\ o # <<>>) =>
                  RoundTrip(o, currentPdfChunks')]_vars

\* The same when the record read is the one a run for the same document wrote last.
OwnRecordRoundTrip ==
    [][\A r \in DOMAIN runs :
          LET content == cache[cacheFileName(runs[r].file)]
              o == content.wrote[runs[r].file]
          IN  (CacheReadDone(r) /\ content.state = "valid" /\ content.by = runs[r].file) =>
                  RoundTrip(o, currentPdfChunks')]_vars

\* C18: two documents never share a cache record: a cache-hit run publishes chunks
\* that a run for the same document wrote.
HitPublishesOwnChunks ==
    [][\A r \in DOMAIN runs :
          LET content == cache[cacheFileName(runs[r].file)]
          IN  (CacheReadDone(r) /\ content.state = "valid") =>
                  content.by = runs[r].file]_vars

\* What the activation of a view that is neither a PDF nor the chat view does at once
\* when the active text is non-empty, and what the activation of the chat view does.
ActivationFrame ==
    /\ (ActivateOther /\ currentPdfText # <<>>) =>
           /\ currentPdfText' = <<>>
           /\ currentPdfChunks' = <<>>
           /\ lastProcessedFile' = NoFile
           /\ pendingIdle' = pendingIdle + 1
    /\ ActivateChat =>
           /\ UNCHANGED <<currentPdfText, currentPdfChunks, lastProcessedFile>>
           /\ UNCHANGED <<lastBroadcast, inputDisabled, pendingIdle>>

\* C19: when a view that is neither a PDF nor the chat view becomes active while the
\* active text is non-empty, the text, the chunk set and the last-processed document
\* are reset, and the handler does not return without broadcasting `idle`; when the
\* chat view becomes active nothing is changed or broadcast.
ResetBroadcastsIdle ==
    [][/\ ActivationFrame
       /\ pendingIdle' < pendingIdle => lastBroadcast' = "idle"]_vars

\* The same, `idle` being broadcast when the settings save resolves.
ResetBroadcastsIdleOnceSaved ==
    [][/\ ActivationFrame
       /\ IdleSaveDone => lastBroadcast' = "idle"]_vars

\* C20: a document-open notification for the PDF recorded as last processed, while the
\* active text is non-empty, starts no run and broadcasts nothing; a notification for
\* another PDF, or one received while the active text is empty, calls preparePdf for
\* that PDF, and the run that call starts, if any, is a run for it.
ReingestOnlyWhenNeeded ==
    [][\A file \in Docs :
          OpenPdf(file) =>
              IF lastProcessedFile = file /\ currentPdfText # <<>>
              THEN /\ lastCall' = "skipped"
                   /\ runs' = runs
                   /\ isProcessing' = isProcessing
                   /\ lastBroadcast' = lastBroadcast
                   /\ inputDisabled' = inputDisabled
                   /\ UNCHANGED <<lastProcessedFile, currentPdfText, currentPdfChunks>>
              ELSE /\ lastCall' \in {"rejected", "nokey", "started"}
                   /\ lastCall' = "rejected" <=> isProcessing
                   /\ lastCall' = "nokey" <=> (~isProcessing /\ ~apiKey)
                   /\ lastCall' = "started" =>
                          /\ Last(runs').file = file
                          /\ Last(runs').pc = "saving"
                          /\ lastProcessedFile' = file]_vars

\* The document that is loaded is opened again, and nothing is done.
LoadedDocumentSkipped ==
    /\ lastCall = "skipped"
    /\ lastProcessedFile = PathA
    /\ currentPdfText # <<>>
    /\ ~isProcessing

\* A run at its first await, which only the call of preparePdf leaves it at.
Starting(rs) == {r \in DOMAIN rs : rs[r].pc = "saving"}

\* C21: an ingest request made while the in-progress flag is set changes nothing and
\* broadcasts nothing, and it is not queued: a run starts only in the step of a
\* document-open notification, as a run for the document of that notification; no
\* step of a run, its last included, starts one.
RejectedRequestNotQueued ==
    [][/\ \A file \in Docs :
             (IngestRequested(file) /\ isProcessing) =>
                 /\ lastCall' = "rejected"
                 /\ runs' = runs
                 /\ UNCHANGED <<lastProcessedFile, currentPdfText, currentPdfChunks,
                                isProcessing, cache, pendingIdle>>
                 /\ UNCHANGED <<lastBroadcast, inputDisabled>>
       /\ (Starting(runs') # {} /\ Starting(runs) = {}) =>
             \E file \in Docs :
                 /\ OpenPdf(file)
                 /\ ~isProcessing
                 /\ lastCall' = "started"
                 /\ Last(runs').file = file]_vars

\* A request was rejected while the run for another document, started over the text of
\* a loaded one, was still going on.
RequestDuringOtherRunRejected ==
    /\ lastCall = "rejected"
    /\ isProcessing
    /\ LiveRuns # <<>>
    /\ Last(runs).file = PathC
    /\ currentPdfText # <<>>

\* The view whose listener was registered last is open.
LatestOpen(v) ==
    /\ secondView.latest = v
    /\ IF v = "view" THEN viewOpen ELSE secondView.open

\* The listener slot holds one listener: a registration replaces what the slot held,
\* and the broadcasts of a step reach the view in the slot and no other.
SingleListenerSlot ==
    [][/\ OpenView => onStateChange' = "view"
       /\ OpenSecondView => onStateChange' = "other"
       /\ (onStateChange # "view" /\ inputDisabled' # inputDisabled) =>
              OpenView
       /\ (onStateChange # "other" /\ secondView'.disabled # secondView.disabled) =>
              OpenSecondView \/ CloseSecondView]_vars

\* C22: there is one listener slot, a registration replaces the listener registered
\* before, and the listener registered last stays in the slot, receiving every
\* broadcast, as long as its own view is open.
LatestListenerKeepsReceiving ==
    \A v \in {"view", "other"} : LatestOpen(v) => onStateChange = v

\* The positions in `text` of the paragraphs of a page body that exceed 100 characters.
LongParagraphs(text) ==
    {i \in DOMAIN text :
        /\ text[i].k = "para"
        /\ ParagraphLength(text[i].id) > 100
        /\ \E j \in 1..(i - 1) : text[j].k = "page"}

\* The place of position i among the positions of P.
Rank(P, i) == Cardinality({j \in P : j <= i})

\* The position of the page marker that precedes position i most closely.
MarkerBefore(text, i) ==
    CHOOSE j \in 1..(i - 1) :
        /\ text[j].k = "page"
        /\ \A m \in (j + 1)..(i - 1) : text[m].k # "page"

\* C23: every chunk the chunker emits is longer than 100 characters, and the paragraphs
\* of page bodies longer than 100 characters are emitted one chunk each, in the order
\* of the text.
ChunksAreTheLongParagraphs ==
    \A r \in DOMAIN runs :
        runs[r].pc = "chunked" =>
            LET out == runs[r].todo
                P == LongParagraphs(currentPdfText)
            IN  /\ \A k \in DOMAIN out : ParagraphLength(out[k].text) >= 101
                /\ Len(out) = Cardinality(P)
                /\ \A i \in P : out[Rank(P, i)].text = currentPdfText[i].id

\* A text with a paragraph of exactly 100 characters and one of 101 has been chunked.
BoundaryParagraphsChunked ==
    \E r \in DOMAIN runs :
        /\ runs[r].pc = "chunked"
        /\ \E i, j \in DOMAIN currentPdfText :
               /\ i < j
               /\ currentPdfText[i] = Page(1)
               /\ currentPdfText[j] = Para("C1")
        /\ \E j \in DOMAIN currentPdfText : currentPdfText[j] = Para("A3")
        /\ Len(runs[r].todo) = 1

\* C24: the page of every chunk is the number of a page marker of the text, namely of
\* the marker that precedes the chunk's paragraph most closely; the text of three pages
\* with one paragraph of 150 characters on page 2 and short headers on pages 1 and 3
\* gives exactly one chunk, of page 2.
ChunkPageIsItsMarker ==
    \A r \in DOMAIN runs :
        runs[r].pc = "chunked" =>
            LET out == runs[r].todo
                text == currentPdfText
                P == LongParagraphs(text)
            IN  /\ \A k \in DOMAIN out :
                       \E j \in DOMAIN text : text[j].k = "page" /\ text[j].n = out[k].page
                /\ \A i \in P : Rank(P, i) \in DOMAIN out
                /\ \A i \in P : out[Rank(P, i)].page = text[MarkerBefore(text, i)].n
                /\ text = ThreePages => out = <<[text |-> "A1", page |-> 2]>>

\* The text of three pages has been chunked.
ThreePagesChunked ==
    \E r \in DOMAIN runs :
        /\ runs[r].pc = "chunked"
        /\ currentPdfText = ThreePages
        /\ Len(runs[r].todo) = 1

\* The turns whose score has been computed.
ScoredTurns == {t \in DOMAIN turns : turns[t].pc = "scored"}

\* The similarity of the two vectors is 0 by the tests of cosineSimilarity.
Degenerate(vecA, vecB) ==
    \/ Len(vecA) # Len(vecB)
    \/ \A i \in DOMAIN vecA : vecA[i] = 0
    \/ \A i \in DOMAIN vecB : vecB[i] = 0

\* C25: the score is 0 when the active chunk set is empty, whatever the query; a chunk
\* whose embedding or whose query has zero magnitude, or whose length differs from the
\* query's, has similarity 0, and the score is 0 when every chunk is such.
DegenerateScoresZero ==
    \A t \in ScoredTurns :
        LET q == turns[t].answerEmbedding IN
        /\ currentPdfChunks = <<>> => turns[t].maxSimilarity.dot = 0
        /\ \A k \in DOMAIN currentPdfChunks :
               Degenerate(q, currentPdfChunks[k].embedding) =>
                   cosineSimilarity(q, currentPdfChunks[k].embedding).dot = 0
        /\ (\A k \in DOMAIN currentPdfChunks :
                Degenerate(q, currentPdfChunks[k].embedding)) =>
               turns[t].maxSimilarity.dot = 0

\* A query was scored against a chunk of another length and a chunk of zero magnitude.
DegenerateChunksScored ==
    \E t \in ScoredTurns :
        /\ Len(turns[t].answerEmbedding) = 1
        /\ turns[t].answerEmbedding[1] # 0
        /\ Len(currentPdfChunks) = 2
        /\ Len(currentPdfChunks[1].embedding) = 2
        /\ currentPdfChunks[1].embedding[1] # 0
        /\ currentPdfChunks[2].embedding = <<0>>

\* The similarity s is the largest of the similarities of q to the chunks.
IsMaximum(s, q, chunks) ==
    /\ \A k \in DOMAIN chunks : ~Greater(cosineSimilarity(q, chunks[k].embedding), s)
    /\ \E k \in DOMAIN chunks :
           ~Greater(s, cosineSimilarity(q, chunks[k].embedding))

\* 0 <= s <= 1, and s = 1.
InUnitInterval(s) == s.dot >= 0 /\ s.dot * s.dot <= s.m
IsOne(s) == s.dot > 0 /\ s.dot * s.dot = s.m

\* C26 as stated: over a non-empty chunk set the score is the maximum of the cosine
\* similarities of the query to the chunks, it lies in [0,1], and it is 1 when the
\* query is a non-zero chunk embedding.
ScoreIsMaximum ==
    \A t \in ScoredTurns :
        LET q == turns[t].answerEmbedding
            s == turns[t].maxSimilarity
        IN  currentPdfChunks # <<>> =>
                /\ IsMaximum(s, q, currentPdfChunks)
                /\ InUnitInterval(s)
                /\ \A k \in DOMAIN currentPdfChunks :
                       (q = currentPdfChunks[k].embedding /\ Norm2(q) # 0) => IsOne(s)

\* C26 amended: over a non-empty chunk set the score is the maximum of the cosine
\* similarities of the query to the chunks when one of them is positive and 0
\* otherwise; it lies in [0,1] and is 1 when the query is a non-zero chunk embedding.
ScoreIsClampedMaximum ==
    \A t \in ScoredTurns :
        LET q == turns[t].answerEmbedding
            s == turns[t].maxSimilarity
            positive == \E k \in DOMAIN currentPdfChunks :
                            Greater(cosineSimilarity(q, currentPdfChunks[k].embedding), Zero)
        IN  currentPdfChunks # <<>> =>
                /\ positive => IsMaximum(s, q, currentPdfChunks)
                /\ ~positive => s.dot = 0
                /\ InUnitInterval(s)
                /\ \A k \in DOMAIN currentPdfChunks :
                       (q = currentPdfChunks[k].embedding /\ Norm2(q) # 0) => IsOne(s)

\* The second of two chunks is closer to the query than the first, which is not opposed
\* to it.
CloserSecondChunkScored ==
    \E t \in ScoredTurns :
        LET q == turns[t].answerEmbedding IN
        /\ Len(currentPdfChunks) = 2
        /\ Greater(cosineSimilarity(q, currentPdfChunks[2].embedding),
                   cosineSimilarity(q, currentPdfChunks[1].embedding))
        /\ Greater(cosineSimilarity(q, currentPdfChunks[1].embedding), Zero)

\* C27: whatever the remote call of an embedding request does, getEmbedding gives its
\* caller the vector of the response or null and never an exception: when a batch
\* settles with a model selected, the run does not fail and broadcasts no error, and
\* the chunks it collects are the chunks of the requests that returned a vector, each
\* with the vector the service computed for its text.
RemoteOutcomeNeverThrows ==
    [][\A r \in DOMAIN runs :
          (/\ r \in DOMAIN runs'
           /\ runs[r].pc = "embedding"
           /\ runs'[r] # runs[r]
           /\ embeddingModel) =>
              LET returned == runs'[r].vectors - runs[r].vectors
                  before == Len(currentPdfChunks)
              IN  /\ runs'[r].how # "error"
                  /\ Count(Statuses(runs'[r]), "error") = 0
                  /\ runs'[r].processed = runs[r].processed + runs[r].inFlight
                  /\ returned \in 0..runs[r].inFlight
                  /\ Len(currentPdfChunks') = before + returned
                  /\ SubSeq(currentPdfChunks', 1, before) = currentPdfChunks
                  /\ \A k \in (before + 1)..Len(currentPdfChunks') :
                         currentPdfChunks'[k].embedding =
                             RemoteEmbedding(currentPdfChunks'[k].text)]_vars

\* A run ended without error although some of its requests returned null and others a
\* vector.
NullResultsSurvived ==
    \E r \in DOMAIN runs :
        /\ runs[r].how = "full"
        /\ runs[r].vectors > 0
        /\ runs[r].processed > runs[r].vectors

\* The run r ends in this step after a cache miss, with no error.
EndsFull(r) ==
    /\ r \in DOMAIN runs'
    /\ runs[r].pc # "ended"
    /\ runs'[r].pc = "ended"
    /\ runs'[r].how = "full"

\* C28: when a cache-miss run ends without error, the active chunk set is the sequence
\* of the chunks whose embedding request returned a vector, in chunker order and with
\* their text and page, and the run has broadcast no error.
ActiveSetIsReturnedChunks ==
    [][\A r \in DOMAIN runs :
          EndsFull(r) =>
              /\ currentPdfChunks' = runs'[r].returned
              /\ Count(Statuses(runs'[r]), "error") = 0]_vars

\* The requests of a run: no more than `concurrency` of them are in flight, no chunk
\* was asked for twice, and once the loop is left every chunk of the chunker output was
\* asked for, in order.
RequestedOnce(run) ==
    /\ run.inFlight <= concurrency
    /\ \A i, j \in DOMAIN run.asked : run.asked[i] = run.asked[j] => i = j
    /\ run.pc \in {"writing", "ended"} => run.asked = [k \in DOMAIN run.todo |-> k]

\* C29: in every run at most `concurrency` embedding requests are in flight at any
\* time, and every chunk the chunker produced is requested exactly once in the run.
EveryChunkRequestedOnce ==
    \A r \in DOMAIN runs : RequestedOnce(runs[r])

\* The same for the runs whose embedding stage no exception has left.
UnbrokenRunRequestsOnce ==
    \A r \in DOMAIN runs :
        runs[r].how # "error" => RequestedOnce(runs[r])

\* C30: whichever views become active during a run, the record the run writes to the
\* cache of its document holds every chunk whose embedding request returned a vector in
\* that run, in chunker order.
WrittenRecordIsReturnedChunks ==
    \A r \in DOMAIN runs :
        runs[r].toWrite # <<>> =>
            /\ runs[r].embedded = runs[r].returned
            /\ runs[r].toWrite = RoundChunks(runs[r].returned)

\* C31: while a run is in progress the active chunk set is never a partly built set:
\* as long as the run still has requests to collect, the set is empty or holds no chunk
\* of that run.
NoPartlyBuiltChunkSet ==
    \A r \in DOMAIN runs :
        runs[r].pc = "embedding" =>
            \/ currentPdfChunks = <<>>
            \/ \A k \in DOMAIN currentPdfChunks, j \in DOMAIN runs[r].returned :
                   currentPdfChunks[k] # runs[r].returned[j]

----------------------------------------------------------------------------
(* Properties of the conversation with turns in flight *)

\* The history without the user turn of the turn `turn`.
WithoutOwnTurn(history, turn) ==
    SelectSeq(history, LAMBDA e : e # UserTurn(turn.userParts))

\* C32: with two turns in flight, a turn that ends blocked or failed removes from the
\* history its own user turn and no other entry, whichever response arrives first.
FailedTurnRemovesOwnTurn ==
    [][\A t \in DOMAIN turns :
          (/\ Len(turns) = 2
           /\ \A u \in DOMAIN turns : ~turns[u].cleared
           /\ ResponseBlocked(t) \/ TurnFailed(t)) =>
              conversationHistory' = WithoutOwnTurn(conversationHistory, turns[t])]_vars

\* user, model, user, model, ...: empty, or starting with a user turn and ending with
\* a model turn.
Alternating(history) ==
    /\ Len(history) % 2 = 0
    /\ \A i \in DOMAIN history :
           history[i].role = (IF i % 2 = 1 THEN "user" ELSE "model")

\* C33: whenever no turn is in flight the conversation history alternates user, model,
\* user, model, ..., from a user turn to a model turn, or is empty.
HistoryAlternatesAtRest ==
    turns = <<>> => Alternating(conversationHistory)

\* C34: after Clear Chat the history stays empty until the next accepted send: the end
\* of a turn that was sent before the click (answer, block or failure) leaves the empty
\* history empty.
ClearedHistoryStaysEmpty ==
    [][\A t \in DOMAIN turns :
          (/\ turns[t].cleared
           /\ conversationHistory = <<>>
           /\ TurnStep(t)) =>
              conversationHistory' = <<>>]_vars

\* A run has ended in `complete`, without error, with a non-empty active text while the
\* chat view is open and listening.
CompletedWithText ==
    /\ viewOpen
    /\ onStateChange = "view"
    /\ ~isProcessing
    /\ lastBroadcast = "complete"
    /\ currentPdfText # <<>>
    /\ \A r \in DOMAIN runs : runs[r].how # "error"

\* C35: once a run has ended in `complete` with a non-empty active text while the chat
\* view is open, the chat input becomes enabled unless the view is closed or another run
\* starts, whatever the user clicked before.
InputEventuallyEnabled ==
    CompletedWithText ~> (~inputDisabled \/ ~viewOpen \/ isProcessing)

----------------------------------------------------------------------------
(* Properties of the active state at rest *)

\* The paragraphs of a document.
ParagraphsOf(file) ==
    UNION {{DocPages(file)[p][j] : j \in DOMAIN DocPages(file)[p]} : p \in DOMAIN DocPages(file)}

\* The text and the chunks hold paragraphs of the document `file` only.
DerivedFrom(file, text, chunks) ==
    /\ \A i \in DOMAIN text : text[i].k = "para" => text[i].id \in ParagraphsOf(file)
    /\ \A k \in DOMAIN chunks : chunks[k].text \in ParagraphsOf(file)

\* C36: whenever no run is in progress and the active text is not empty, the active
\* text and the active chunk set come from the document stored as the last-processed
\* document.
ActiveStateIsOfLastProcessed ==
    (~isProcessing /\ currentPdfText # <<>>) =>
        /\ lastProcessedFile \in Docs
        /\ DerivedFrom(lastProcessedFile, currentPdfText, currentPdfChunks)

\* C37: whenever no run is in progress, an empty active text comes with an empty active
\* chunk set.
EmptyTextHasNoChunks ==
    (~isProcessing /\ currentPdfText = <<>>) => currentPdfChunks = <<>>

\* C38: every run that passed the re-entrancy guard and the API-key check broadcasts
\* `complete` exactly once, as its last broadcast: none while it is under way, and one,
\* at the end of its broadcasts, once it has returned on any of its paths.
CompleteExactlyOnce ==
    \A r \in DOMAIN runs :
        /\ Active(runs[r]) => Count(Statuses(runs[r]), "complete") = 0
        /\ runs[r].pc = "ended" =>
               /\ Count(Statuses(runs[r]), "complete") = 1
               /\ Last(Statuses(runs[r])) = "complete"

\* C39: the active text a cache-hit run publishes is the active text that the
\* cache-miss run which wrote the record published, the parsed text of its document.
HitTextIsWriterText ==
    [][\A r \in DOMAIN runs :
          (/\ r \in DOMAIN runs'
           /\ runs[r].pc = "loading"
           /\ runs'[r].how = "hit") =>
              currentPdfText' = ParsedText(cache[cacheFileName(runs[r].file)].by)]_vars

====
